---- MODULE Spec2Model ----
(***************************************************************************)
(* A model of lib/nel.js: the Session coordinator (task queue, in-flight   *)
(* slot, context table, message handler, kill and restart).                *)
(*                                                                         *)
(* Task objects live in a heap (a sequence of records); a reference to a   *)
(* task is its index in the heap (its uid) and Null is the null reference, *)
(* so that `task === this._currentTask` is equality of uids and the        *)
(* in-place update `this._lastTask.code = ...` is seen through every       *)
(* reference.  Uids are handed out in the order tasks are created, i.e. in *)
(* submission order.                                                       *)
(*                                                                         *)
(* Every handler of the coordinator is an operator from a session state    *)
(* (a record) to a session state, because handlers call each other and     *)
(* user callbacks call back into the session (re-entrancy).                *)
(***************************************************************************)
EXTENDS Integers, Sequences, FiniteSets, TLC

\* ------------------------------------------------------------------ bounds
MaxTasks == 3
MaxMsgs == 3
MaxKills == 2
\* Public calls and worker messages in one run
MaxSteps == 4
\* Length of the code given to complete and inspect
MaxCodeLen == 3
\* The same, in a run against a worker that answers every request
MaxStepsAnswered == 12

\* --------------------------------------------------------------- constants
Null == 0

AllCallbacks == {"onSuccess", "onError", "beforeRun", "afterRun", "onStdout", "onStderr"}

\* Values the user's transpile function throws in this model:
\*   an Error (name, message, stack), an object with a message only, an
\*   empty object, a string primitive, null and undefined.
\* tag is the result of typeof; truthy the value's truthiness; "" stands for
\* a property that is missing (or empty: both are falsy).
ErrorValue == [tag |-> "object", truthy |-> TRUE, name |-> "SyntaxError",
               message |-> "bad", stack |-> <<"SyntaxError: bad", "at hook">>]
MessageOnlyValue == [tag |-> "object", truthy |-> TRUE, name |-> "",
                     message |-> "bad", stack |-> <<>>]
EmptyObjectValue == [tag |-> "object", truthy |-> TRUE, name |-> "",
                     message |-> "", stack |-> <<>>]
StringValue == [tag |-> "string", truthy |-> TRUE, name |-> "",
                message |-> "", stack |-> <<>>]
NullValue == [tag |-> "object", truthy |-> FALSE, name |-> "",
              message |-> "", stack |-> <<>>]
UndefinedValue == [tag |-> "undefined", truthy |-> FALSE, name |-> "",
                   message |-> "", stack |-> <<>>]
ThrownValues == {ErrorValue, MessageOnlyValue, EmptyObjectValue, StringValue,
                 NullValue, UndefinedValue}

\* The user's hook: either none is configured, or a function that rewrites
\* "good" code and throws `thrown` on "bad" code.
NoHook == [set |-> FALSE, thrown |-> UndefinedValue]
Hooks == {NoHook} \cup {[set |-> TRUE, thrown |-> v] : v \in ThrownValues}

Codes == {"good", "bad"}

\* What a user callback does besides being recorded: nothing, or it calls
\* back into the session.
NoRe == [cb |-> "none", op |-> "none"]

VARIABLES
    transpile,      \* this.transpile
    tasks,          \* this._tasks: queue of task references
    currentTask,    \* this._currentTask
    contextTable,   \* this._contextTable: context id -> task reference
    lastContextId,  \* this._lastContextId
    lastTask,       \* this._lastTask
    config,         \* this._config
    server,         \* this._server: the forked worker and its listeners
    killed,         \* this._killed
    heap,           \* the task objects, each with the history of its callbacks
    sent,           \* history: the requests handed to the worker, in order
    trace,          \* history: callbacks invoked and requests sent by the last step, in order
    escaped,        \* history: number of exceptions that left a public call or handler
    nMsgs,          \* history: number of worker messages delivered
    kills,          \* history: the kill()/restart() calls made
    givenConfig     \* history: the configuration given to new Session(...)

vars == <<transpile, tasks, currentTask, contextTable, lastContextId, lastTask,
          config, server, killed, heap, sent, trace, escaped, nMsgs, kills,
          givenConfig>>

\* The session as one record, for the operators that model the handlers.
State ==
    [transpile |-> transpile, tasks |-> tasks, currentTask |-> currentTask,
     contextTable |-> contextTable, lastContextId |-> lastContextId,
     lastTask |-> lastTask, config |-> config, server |-> server,
     killed |-> killed, heap |-> heap, sent |-> sent, trace |-> <<>>,
     kills |-> kills, exc |-> FALSE]

\* History: restart() has been called since task uid was made.
AfterRestart(s, uid) ==
    \E k \in s.heap[uid].born + 1 .. Len(s.kills) : s.kills[k].kind = "restart"

\* Record an event (with open: whether the context table held the event's
\* task at that moment): in the trace of the step, and in the cumulative history
\* (the requests sent; per task, how often each of its callbacks has run
\* and how often after a later restart(), what its onSuccess was last given
\* and how often the transpile hook was applied to its code; per public call, how often each callback of the user has run and how
\* often after kill(); per kill, how often its callback has run).
Emit(s, e) ==
    LET s1 == [s EXCEPT !.trace = Append(@, e)] IN
    CASE e.kind = "send" -> [s1 EXCEPT !.sent = Append(@, e)]
      [] e.kind = "task" ->
            [s1 EXCEPT !.heap[e.uid].t[e.cb] = @ + 1,
                       !.heap[e.uid].got = IF e.cb = "onSuccess" THEN e.arg ELSE @,
                       !.heap[e.uid].late =
                           IF AfterRestart(s, e.uid) THEN @ + 1 ELSE @]
      [] e.kind = "cb" ->
            [s1 EXCEPT !.heap[e.owner].n[e.cb] = @ + 1,
                       !.heap[e.owner].nKilled = IF e.killed THEN @ + 1 ELSE @]
      [] e.kind = "killCB" -> [s1 EXCEPT !.kills[e.owner].n = @ + 1]
      [] e.kind = "hook" -> [s1 EXCEPT !.heap[e.uid].hooked = @ + 1]

\* History: task uid has a context and the context table holds the task
\* under it.
InTable(s, uid) ==
    /\ s.heap[uid].ctx \in DOMAIN s.contextTable
    /\ s.contextTable[s.heap[uid].ctx] = uid

\* A callback of a task object invoked (task.onSuccess(...), ...).
TaskEvent(s, uid, cb, arg) ==
    [kind |-> "task", uid |-> uid, owner |-> s.heap[uid].owner, cb |-> cb,
     id |-> 0, action |-> "", code |-> "", arg |-> arg, gen |-> s.server.gen,
     killed |-> s.killed, ended |-> FALSE, open |-> InTable(s, uid)]

\* A callback of the user's callbacks object invoked.  uid is the task the
\* callback was reached through, owner the public call it was given to, arg
\* what it was passed (the ename of an error message).
CbEvent(s, uid, cb, arg) ==
    [kind |-> "cb", uid |-> uid, owner |-> s.heap[uid].owner, cb |-> cb,
     id |-> 0, action |-> "", code |-> "", arg |-> arg, gen |-> s.server.gen,
     killed |-> s.killed, ended |-> FALSE, open |-> InTable(s, uid)]

\* A request handed to this._server.send: [action, code, contextId].
SendEvent(s, uid, id) ==
    [kind |-> "send", uid |-> uid, owner |-> s.heap[uid].owner, cb |-> "",
     id |-> id, action |-> s.heap[uid].action, code |-> s.heap[uid].code,
     arg |-> "", gen |-> s.server.gen, killed |-> s.killed, ended |-> FALSE,
     open |-> InTable(s, uid)]

\* this.transpile(this._lastTask.code) called for task uid.
HookEvent(s, uid) ==
    [kind |-> "hook", uid |-> uid, owner |-> s.heap[uid].owner, cb |-> "",
     id |-> 0, action |-> s.heap[uid].action, code |-> s.heap[uid].code,
     arg |-> "", gen |-> s.server.gen, killed |-> s.killed, ended |-> FALSE,
     open |-> InTable(s, uid)]

\* killCB / restartCB invoked for the kid-th kill()/restart() call, with the
\* signal the "exit" event reported.
KillCbEvent(s, kid, signal) ==
    [kind |-> "killCB", uid |-> kid, owner |-> kid, cb |-> "killCB",
     id |-> 0, action |-> "", code |-> "", arg |-> signal, gen |-> s.server.gen,
     killed |-> s.killed, ended |-> FALSE, open |-> FALSE]

\* ---------------------------------------------------------------- messages
Absent == "<absent>"

\* if (message.log), if (message.stdout), if (message.stderr): a missing
\* property and the empty string are both falsy.
Truthy(x) == x \notin {Absent, ""}

\* What the worker reports about an inspected value (not modelled further).
WorkerText == <<"w">>

\* message.inspection as the worker sends it: string, type and, unless the
\* value is null or undefined, constructorList.
Inspection(string, type, hasConstructorList, constructorList) ==
    [string |-> string, type |-> type, hasConstructorList |-> hasConstructorList,
     constructorList |-> constructorList]

\* A message: id = 0 stands for a message without an id.
Message(id, end, log, stdout, stderr, error, ename) ==
    [id |-> id, end |-> end, log |-> log, stdout |-> stdout, stderr |-> stderr,
     error |-> error, ename |-> ename, names |-> <<>>,
     inspection |-> Inspection(WorkerText, WorkerText, FALSE, <<>>)]

\* A NameListMessage: the success message that answers getAllPropertyNames.
NameListMessage(id, end, names) ==
    [Message(id, end, Absent, Absent, Absent, FALSE, "") EXCEPT !.names = names]

\* An InspectionMessage: the success message that answers inspect.
InspectionMessage(id, end, inspection) ==
    [Message(id, end, Absent, Absent, Absent, FALSE, "")
        EXCEPT !.inspection = inspection]

\* The message as task.onSuccess gets it: id and end have been deleted.
Result(message) == [names |-> message.names, inspection |-> message.inspection]

\* ------------------------------------------------------------- constructor
\* child_process.fork(paths.server, this._config)
Fork(gen, cfg) ==
    [gen |-> gen, state |-> "running", msgListener |-> FALSE,
     exitListeners |-> <<>>, signal |-> "", cwd |-> cfg.cwd]

\* nelConfig.transpile: undefined when nelConfig has no such property.
ConfigTranspile(nelConfig) ==
    IF "transpile" \in DOMAIN nelConfig THEN nelConfig.transpile ELSE NoHook

\* function Session(nelConfig), applied to the object s (new Session(...) or
\* Session.call(this, ...)).  The heap and the history are not part of the
\* session object and are kept.
Session(s, nelConfig) ==
    LET cfg == [cwd |-> nelConfig.cwd, stdio |-> "ipc"] IN
    [s EXCEPT !.transpile = ConfigTranspile(nelConfig),
              !.tasks = <<>>,
              !.currentTask = Null,
              !.contextTable = <<>>,
              !.lastContextId = 0,
              !.lastTask = Null,
              !.config = cfg,
              !.server = [Fork(s.server.gen + 1, cfg) EXCEPT !.msgListener = TRUE],
              !.killed = FALSE]

\* ------------------------------------------------------------ transpile hook
\* this.transpile(code): the hook's result, or the value it throws.
ApplyHook(hook, code) ==
    IF code = "bad"
    THEN [threw |-> TRUE, value |-> "", thrown |-> hook.thrown]
    ELSE [threw |-> FALSE, value |-> "js:" \o code, thrown |-> UndefinedValue]

\* util.inspect(error): the module never requires "util" (its requires are
\* console, fs, path, child_process and ./mdn.js), so evaluating the
\* identifier throws a ReferenceError.
UtilInspect(error) == [threw |-> TRUE, value |-> ""]

\* The object literal passed to this._onMessage in the catch block of
\* _runNow; threw when evaluating it throws.
HookErrorMessage(error) ==
    LET ename == IF error.truthy /\ error.name # "" THEN error.name ELSE error.tag
        evalue == IF error.truthy /\ error.message # ""
                  THEN [threw |-> FALSE, value |-> error.message]
                  ELSE UtilInspect(error)
    IN [threw |-> evalue.threw,
        msg |-> Message(0, FALSE, Absent, Absent, Absent, TRUE, ename)]

\* ----------------------------------------------------------------- strings
\* A Javascript string is a sequence of one-character strings.
Lower == {"a", "b", "c", "d", "e", "f", "g", "h", "i", "j", "k", "l", "m",
          "n", "o", "p", "q", "r", "s", "t", "u", "v", "w", "x", "y", "z"}
Upper == {"A", "B", "C", "D", "E", "F", "G", "H", "I", "J", "K", "L", "M",
          "N", "O", "P", "Q", "R", "S", "T", "U", "V", "W", "X", "Y", "Z"}
Digit == {"0", "1", "2", "3", "4", "5", "6", "7", "8", "9"}

\* [_$a-zA-Z] and [_$a-zA-Z0-9]
IdStart == Lower \cup Upper \cup {"_", "$"}
IdChar == IdStart \cup Digit

\* /\s/ on the characters used here
whitespaceRE == {" ", "\t", "\n", "\r"}

\* The characters `.` of a regular expression does not match
LineTerminators == {"\n", "\r"}

\* String.prototype.slice(begin, end) for 0 <= begin and 0 <= end
Slice(str, begin, end) ==
    SubSeq(str, begin + 1, IF end < Len(str) THEN end ELSE Len(str))

\* str.slice(begin)
SliceFrom(str, begin) == Slice(str, begin, Len(str))

\* String.prototype.indexOf(searchString): the first position (from 0) at
\* which searchString occurs in str, -1 if there is none.
IndexOf(str, searchString) ==
    LET at == {i \in 0 .. Len(str) - Len(searchString) :
                  Slice(str, i, i + Len(searchString)) = searchString}
    IN IF at = {} THEN -1 ELSE CHOOSE i \in at : \A j \in at : i <= j

\* e.lastIndexOf(selector, 0) === 0: the last occurrence of selector at or
\* before position 0 is at position 0, i.e. e starts with selector.
LastIndexOfAt0(e, selector) ==
    IF Len(selector) <= Len(e) /\ Slice(e, 0, Len(selector)) = selector
    THEN 0 ELSE -1

\* javascriptKeywords
javascriptKeywords ==
    <<<<"b", "r", "e", "a", "k">>,
      <<"c", "a", "s", "e">>,
      <<"c", "a", "t", "c", "h">>,
      <<"c", "o", "n", "t", "i", "n", "u", "e">>,
      <<"d", "e", "b", "u", "g", "g", "e", "r">>,
      <<"d", "e", "f", "a", "u", "l", "t">>,
      <<"d", "e", "l", "e", "t", "e">>,
      <<"d", "o">>,
      <<"e", "l", "s", "e">>,
      <<"f", "i", "n", "a", "l", "l", "y">>,
      <<"f", "o", "r">>,
      <<"f", "u", "n", "c", "t", "i", "o", "n">>,
      <<"i", "f">>,
      <<"i", "n">>,
      <<"i", "n", "s", "t", "a", "n", "c", "e", "o", "f">>,
      <<"n", "e", "w">>,
      <<"r", "e", "t", "u", "r", "n">>,
      <<"s", "w", "i", "t", "c", "h">>,
      <<"t", "h", "i", "s">>,
      <<"t", "h", "r", "o", "w">>,
      <<"t", "r", "y">>,
      <<"t", "y", "p", "e", "o", "f">>,
      <<"v", "a", "r">>,
      <<"v", "o", "i", "d">>,
      <<"w", "h", "i", "l", "e">>,
      <<"w", "i", "t", "h">>,
      <<"c", "l", "a", "s", "s">>,
      <<"c", "o", "n", "s", "t">>,
      <<"e", "n", "u", "m">>,
      <<"e", "x", "p", "o", "r", "t">>,
      <<"e", "x", "t", "e", "n", "d", "s">>,
      <<"i", "m", "p", "o", "r", "t">>,
      <<"s", "u", "p", "e", "r">>,
      <<"i", "m", "p", "l", "e", "m", "e", "n", "t", "s">>,
      <<"i", "n", "t", "e", "r", "f", "a", "c", "e">>,
      <<"l", "e", "t">>,
      <<"p", "a", "c", "k", "a", "g", "e">>,
      <<"p", "r", "i", "v", "a", "t", "e">>,
      <<"p", "r", "o", "t", "e", "c", "t", "e", "d">>,
      <<"p", "u", "b", "l", "i", "c">>,
      <<"s", "t", "a", "t", "i", "c">>,
      <<"y", "i", "e", "l", "d">>,
      <<"n", "u", "l", "l">>,
      <<"t", "r", "u", "e">>,
      <<"f", "a", "l", "s", "e">>>>

\* [_$a-zA-Z][_$a-zA-Z0-9]* matches the whole of str
IsIdentifier(str) ==
    /\ Len(str) >= 1
    /\ str[1] \in IdStart
    /\ \A i \in 2 .. Len(str) : str[i] \in IdChar

\* \[".*"\] or \['.*'\] matches the whole of str, quote being the quote
IsBracketed(str, quote) ==
    /\ Len(str) >= 4
    /\ str[1] = "[" /\ str[2] = quote
    /\ str[Len(str) - 1] = quote /\ str[Len(str)] = "]"
    /\ \A i \in 3 .. Len(str) - 2 : str[i] \notin LineTerminators

\* One repetition of the group of complexIdentifierRE matches the whole of
\* str: an identifier, `.` and an identifier, or a bracketed string.
IsSelectorGroup(str) ==
    \/ IsIdentifier(str)
    \/ (Len(str) >= 2 /\ str[1] = "." /\ IsIdentifier(Tail(str)))
    \/ IsBracketed(str, "\"")
    \/ IsBracketed(str, "'")

RECURSIVE IsSelectorGroups(_)
\* (?:...)* of complexIdentifierRE matches the whole of str
IsSelectorGroups(str) ==
    \/ str = <<>>
    \/ \E k \in 1 .. Len(str) :
          /\ IsSelectorGroup(SubSeq(str, 1, k))
          /\ IsSelectorGroups(SubSeq(str, k + 1, Len(str)))

\* complexIdentifierRE without the `$` matches the whole of str
IsComplexIdentifier(str) ==
    \E k \in 1 .. Len(str) :
        /\ IsIdentifier(SubSeq(str, 1, k))
        /\ IsSelectorGroups(SubSeq(str, k + 1, Len(str)))

\* RegExp.prototype.exec reports the leftmost match: the least of the
\* positions `at` from which the pattern matches; -1 stands for null.
ExecIndex(at) ==
    IF at = {} THEN -1 ELSE CHOOSE i \in at : \A j \in at : i <= j

\* simpleIdentifierRE.exec(str), as the index of the match: the pattern ends
\* in `$`, so it matches from a position if the rest of str is an identifier.
simpleIdentifierRE(str) ==
    ExecIndex({i \in 0 .. Len(str) - 1 : IsIdentifier(SliceFrom(str, i))})

\* complexIdentifierRE.exec(str), as the index of the match
complexIdentifierRE(str) ==
    ExecIndex({i \in 0 .. Len(str) - 1 : IsComplexIdentifier(SliceFrom(str, i))})

\* ------------------------------------------------------------ parseExpression
\* An Expression; isNull stands for the null parseExpression returns.
Expression(matchedText, scope, leftOp, selector, rightOp) ==
    [isNull |-> FALSE, matchedText |-> matchedText, scope |-> scope,
     leftOp |-> leftOp, selector |-> selector, rightOp |-> rightOp]

NullExpression ==
    [isNull |-> TRUE, matchedText |-> <<>>, scope |-> <<>>, leftOp |-> <<>>,
     selector |-> <<>>, rightOp |-> <<>>]

\* Without a scope before the selector operator the scope is empty.
ParseScope_NeverNull(code, cursorPos, expression, leftOp, selector, rightOp) ==
    LET index == complexIdentifierRE(expression) IN
    IF index >= 0
    THEN Expression(Slice(code, index, cursorPos), SliceFrom(expression, index),
                    leftOp, selector, rightOp)
    ELSE Expression(Slice(code, Len(expression), cursorPos), <<>>,
                    leftOp, selector, rightOp)

\* The matched text starts behind the scope.
ParseScope_BehindScope(code, cursorPos, expression, leftOp, selector, rightOp) ==
    LET index == complexIdentifierRE(expression) IN
    IF index >= 0
    THEN Expression(Slice(code, Len(expression), cursorPos),
                    SliceFrom(expression, index), leftOp, selector, rightOp)
    ELSE NullExpression

\* parseExpression, from `var scope` on: expression is what is left of the
\* selector operator.
ParseScope(code, cursorPos, expression, leftOp, selector, rightOp) ==
    LET index == complexIdentifierRE(expression) IN
    IF index >= 0
    THEN Expression(Slice(code, index, cursorPos), SliceFrom(expression, index),
                    leftOp, selector, rightOp)
    ELSE IF leftOp = <<>>
         THEN Expression(Slice(code, Len(expression), cursorPos), <<>>,
                         leftOp, selector, rightOp)
         ELSE NullExpression

\* parseExpression, from `var leftOp` on: expression is what is left of the
\* selector.
ParseOperator(code, cursorPos, expression, selector) ==
    LET n == Len(expression) IN
    IF n >= 1 /\ expression[n] = "."
    THEN ParseScope(code, cursorPos, Slice(expression, 0, n - 1),
                    <<".">>, selector, <<>>)
    ELSE IF n >= 2 /\ expression[n - 1] = "[" /\ expression[n] = "\""
    THEN ParseScope(code, cursorPos, Slice(expression, 0, n - 2),
                    <<"[", "\"">>, selector, <<"\"", "]">>)
    ELSE IF n >= 2 /\ expression[n - 1] = "[" /\ expression[n] = "'"
    THEN ParseScope(code, cursorPos, Slice(expression, 0, n - 2),
                    <<"[", "'">>, selector, <<"'", "]">>)
    ELSE Expression(Slice(code, n, cursorPos), <<>>, <<>>, selector, <<>>)

\* parseExpression, from `var selector` on.
ParseSelector(code, cursorPos, expression) ==
    LET index == simpleIdentifierRE(expression) IN
    IF index < 0
    THEN ParseOperator(code, cursorPos, expression, <<>>)
    ELSE ParseOperator(code, cursorPos, Slice(expression, 0, index),
                       SliceFrom(expression, index))

\* function parseExpression(code, cursorPos)
parseExpression(code, cursorPos) ==
    LET expression == Slice(code, 0, cursorPos) IN
    IF expression = <<>> \/ expression[Len(expression)] \in whitespaceRE
    THEN Expression(<<>>, <<>>, <<>>, <<>>, <<>>)
    ELSE ParseSelector(code, cursorPos, expression)

\* ------------------------------------------------------------- completion
\* matchList.filter(function(e) { return e.lastIndexOf(selector, 0) === 0; })
FilterMatches(matchList, selector) ==
    SelectSeq(matchList, LAMBDA e : LastIndexOfAt0(e, selector) = 0)

\* matchList.map(function(e) { return left + e + right; })
MapMatches(matchList, left, right) ==
    [i \in 1 .. Len(matchList) |-> left \o matchList[i] \o right]

\* complete, task.onSuccess: "append expression.rightOp to each match"
RenderMatches(matchList, left, right) ==
    IF left # <<>> \/ right # <<>> THEN MapMatches(matchList, left, right)
    ELSE matchList

\* The matches are not filtered.
SelectMatches_All(matchList, expression) == matchList

\* complete, task.onSuccess: "filter matches"
SelectMatches(matchList, expression) ==
    IF expression.selector # <<>>
    THEN FilterMatches(matchList, expression.selector)
    ELSE matchList

\* complete, task.onSuccess: "append list of reserved words"
WithKeywords(matchList, expression) ==
    IF expression.scope = <<>> THEN matchList \o javascriptKeywords
    ELSE matchList

\* complete, task.onSuccess: the new value of the closure's matchList, given
\* its old value and result.names.
CompletionList(matchList, names, expression) ==
    RenderMatches(
        SelectMatches(WithKeywords(matchList \o names, expression), expression),
        expression.scope \o expression.leftOp, expression.rightOp)

\* matchList.reduce(function(p, c) { return p.length <= c.length ? p : c; })
\* for a non-empty list: the first of the shortest entries.
ShortestMatch(matchList) ==
    matchList[CHOOSE i \in 1 .. Len(matchList) :
                 /\ \A j \in 1 .. Len(matchList) : Len(matchList[i]) <= Len(matchList[j])
                 /\ \A j \in 1 .. i - 1 : Len(matchList[j]) > Len(matchList[i])]

\* The for loop of complete's task.onSuccess: cursorEnd moves right from
\* cursorStart while shortestMatch and code agree.
CursorEnd(code, cursorStart, shortestMatch) ==
    LET steps == {i \in 0 .. Len(shortestMatch) :
                     /\ cursorStart + i <= Len(code)
                     /\ \A j \in 0 .. i - 1 :
                           /\ cursorStart + j < Len(code)
                           /\ shortestMatch[j + 1] = code[cursorStart + j + 1]}
    IN cursorStart + (CHOOSE i \in steps : \A j \in steps : j <= i)

\* The object passed to callbacks.onSuccess by complete.
CompletionResult(list, code, cursorPos, matchedText, cursorStart, cursorEnd) ==
    [kind |-> "completion", list |-> list, code |-> code, cursorPos |-> cursorPos,
     matchedText |-> matchedText, cursorStart |-> cursorStart,
     cursorEnd |-> cursorEnd]

\* complete, task.onSuccess: "find range of text that should be replaced"
\* and the result handed to callbacks.onSuccess.
CompletionRange(list, code, cursorPos, matchedText, cursorStart) ==
    IF Len(list) > 0
    THEN CompletionResult(list, code, cursorPos, matchedText, cursorStart,
                          CursorEnd(code, cursorStart, ShortestMatch(list)))
    ELSE CompletionResult(list, code, cursorPos, matchedText, cursorPos, cursorPos)

\* The result complete's task.onSuccess hands to callbacks.onSuccess, given
\* the closure's matchList after the update.
CompletionOf(list, code, cursorPos, expression) ==
    CompletionRange(list, code, cursorPos, expression.matchedText,
                    IndexOf(code, expression.matchedText))

\* An empty completion that replaces the text from the start of the code.
EmptyCompletion_FromStart(code, cursorPos) ==
    CompletionResult(<<>>, code, cursorPos, <<>>, 0, cursorPos)

\* complete, when parseExpression returns null
EmptyCompletion(code, cursorPos) ==
    CompletionResult(<<>>, code, cursorPos, <<>>, cursorPos, cursorPos)

\* The object passed to callbacks.onSuccess by inspect.  What the worker
\* reports about the inspected value is left out; string and type are only
\* given for the result inspect builds itself.
InspectionResult(code, cursorPos, matchedText, string, type) ==
    [kind |-> "inspection", code |-> code, cursorPos |-> cursorPos,
     matchedText |-> matchedText, string |-> string, type |-> type]

\* inspect, when parseExpression returns null
EmptyInspection(code, cursorPos) ==
    InspectionResult(code, cursorPos, <<>>, <<>>, <<>>)

\* No result has been handed to callbacks.onSuccess.
NoResult == [kind |-> "none"]

\* ----------------------------------------------------------- documentation
Box == <<"B", "o", "x">>
Object == <<"O", "b", "j", "e", "c", "t">>
Error == <<"E", "r", "r", "o", "r">>
RangeError == <<"R", "a", "n", "g", "e">> \o Error
Array == <<"A", "r", "r", "a", "y">>

\* ".prototype."
Prototype == <<".", "p", "r", "o", "t", "o", "t", "y", "p", "e", ".">>

\* The documentation dictionary (./mdn.js): a few entries, for members of
\* Box, Object and Error and for one name of the global scope.
doc ==
    (Box \o Prototype \o <<"b">> :> "Box.prototype.b")
    @@ (Object \o Prototype \o <<"b">> :> "Object.prototype.b")
    @@ (Object \o Prototype \o <<"a">> :> "Object.prototype.a")
    @@ (Error \o Prototype \o <<"a">> :> "Error.prototype.a")
    @@ (<<"a", "b">> :> "ab")

\* The null getDocumentation returns.
NoDoc == Absent

\* name.replace(/^[a-zA-Z]+<family>./, replacement): the letters before the
\* family name are matched greedily, `.` matches any character of a line.
ReplaceFamily(name, family, replacement) ==
    LET n == Len(family)
        ends == {k \in 1 .. Len(name) - n - 1 :
                    /\ \A i \in 1 .. k : name[i] \in Lower \cup Upper
                    /\ SubSeq(name, k + 1, k + n) = family
                    /\ name[k + n + 1] \notin LineTerminators}
    IN IF ends = {} THEN name
       ELSE replacement
                \o SubSeq(name, (CHOOSE k \in ends : \A j \in ends : j <= k) + n + 2,
                          Len(name))

\* getDocumentation, after the first look-up has failed
GetFamilyDocumentation(errorName, arrayName) ==
    IF errorName \in DOMAIN doc THEN doc[errorName]
    ELSE IF arrayName \in DOMAIN doc THEN doc[arrayName]
    ELSE NoDoc

\* function getDocumentation(name)
getDocumentation(name) ==
    IF name \in DOMAIN doc THEN doc[name]
    ELSE GetFamilyDocumentation(
            ReplaceFamily(name, Error, Error \o <<".">>),
            ReplaceFamily(name, Array, <<"T", "y", "p", "e", "d">> \o Array \o <<".">>))

\* inspectionResult.doc = doc, when doc is truthy
AttachDoc(inspectionResult, d) ==
    IF d = NoDoc THEN inspectionResult
    ELSE [k \in DOMAIN inspectionResult \cup {"doc"} |->
             IF k = "doc" THEN d ELSE inspectionResult[k]]

RECURSIVE FirstDocumentation_Last(_, _, _)
\* The loop does not stop at the first hit: the documentation of the last
\* constructor that has one.
FirstDocumentation_Last(constructorList, i, selector) ==
    IF i > Len(constructorList) THEN NoDoc
    ELSE IF FirstDocumentation_Last(constructorList, i + 1, selector) # NoDoc
         THEN FirstDocumentation_Last(constructorList, i + 1, selector)
         ELSE getDocumentation(constructorList[i] \o Prototype \o selector)

RECURSIVE FirstDocumentation(_, _, _)
\* The for loop of the second inspect task's onSuccess, from index i on: the
\* documentation of the first constructorName + ".prototype." + selector
\* that has one.
FirstDocumentation(constructorList, i, selector) ==
    IF i > Len(constructorList) THEN NoDoc
    ELSE IF getDocumentation(constructorList[i] \o Prototype \o selector) # NoDoc
         THEN getDocumentation(constructorList[i] \o Prototype \o selector)
         ELSE FirstDocumentation(constructorList, i + 1, selector)

\* ---------------------------------------------------------------- handlers
\* The handlers call each other and are re-entered from user callbacks.
\* Each handler is cut at the points where it has called out, and the state
\* that comes back is handed to the rest of the handler as a parameter.
RECURSIVE OnMessage(_, _)
RECURSIVE RunNow(_, _)
RECURSIVE Run(_, _)
RECURSIVE NewTask(_, _)
RECURSIVE Kill(_, _, _, _)
RECURSIVE CallUser(_, _, _, _)
RECURSIVE CallTask(_, _, _, _)

\* The callbacks a task object carries, given the callbacks object of the
\* public call (ucbs: the names present in it) and which call built the task.
TaskCallbacks(wrap, ucbs) ==
    CASE wrap = "execute" -> ucbs
      [] wrap = "complete" -> ucbs \cup {"onSuccess"}
      [] wrap = "inspect" ->
            (ucbs \cap {"onError", "beforeRun", "onStdout", "onStderr"}) \cup {"onSuccess"}
      [] wrap = "inspectScope" ->
            (ucbs \cap {"onError", "afterRun", "onStdout", "onStderr"}) \cup {"onSuccess"}
      [] OTHER -> {}

\* A task object literal (plus what the model keeps with it: the callbacks
\* object of the public call, for inspect the parsed scope, and the task's
\* history, which includes the code it was made with and, once it is handed
\* to _run, how many kill() and restart() calls had been made and whether the
\* session was killed).  owner = 0 makes the task its own owner.
Task(wrap, action, code, ucbs, re, owner, scope) ==
    [action |-> action, code |-> code, wrap |-> wrap,
     cbs |-> TaskCallbacks(wrap, ucbs), ucbs |-> ucbs, re |-> re,
     owner |-> owner, scope |-> scope,
     n |-> [cb \in AllCallbacks |-> 0], t |-> [cb \in AllCallbacks |-> 0],
     nKilled |-> 0, threw |-> FALSE, ctx |-> 0, gen |-> 0, got |-> NoResult,
     given |-> code, hooked |-> 0, born |-> 0, bornKilled |-> FALSE, late |-> 0,
     src |-> <<>>, cursorPos |-> 0, expr |-> NullExpression,
     matchList |-> <<>>, inspectionResult |-> NoResult, result |-> NoResult]

\* The variables the functions of a complete or inspect call close over:
\* code, cursorPos and expression (matchList starts empty, inspectionResult
\* undefined).  The two tasks of an inspect call share inspectionResult: it
\* is kept with the first.
Closure(t, code, cursorPos, expression) ==
    [t EXCEPT !.src = code, !.cursorPos = cursorPos, !.expr = expression]

\* What the body of a user callback does once it has been entered: nothing,
\* or session.execute("good", callbacks), or session.kill().
CallUserBody(s1, re, cb) ==
    IF re.cb # cb THEN s1
    ELSE IF re.op = "execute"
         THEN NewTask(s1, Task("execute", "run", "good", AllCallbacks, NoRe, 0, <<>>))
         ELSE Kill(s1, "kill", "", FALSE)

\* A callback of the user's callbacks object runs.
CallUser(s, uid, cb, arg) ==
    CallUserBody(Emit(s, CbEvent(s, uid, cb, arg)), s.heap[uid].re, cb)

\* inspect without a scope: callbacks.afterRun() after callbacks.onSuccess
\* (lines 934-941); nothing for the other tasks.
OnSuccessAfterRun(s1, uid) ==
    IF \/ s1.exc
       \/ s1.heap[uid].wrap # "inspect"
       \/ "afterRun" \notin s1.heap[uid].ucbs
    THEN s1
    ELSE CallUser(s1, uid, "afterRun", "")

\* The object the onSuccess of task uid hands to callbacks.onSuccess.
ResultOf(s, uid) ==
    CASE s.heap[uid].wrap = "complete" ->
            CompletionOf(s.heap[uid].matchList, s.heap[uid].src,
                         s.heap[uid].cursorPos, s.heap[uid].expr)
      [] s.heap[uid].wrap \in {"inspect", "inspectScope"} ->
            s.heap[s.heap[uid].owner].inspectionResult
      [] OTHER -> [kind |-> "execution"]

\* inspect, task.onSuccess (lines 910-915): inspectionResult is the result
\* of the worker with code, cursorPos and matchedText set.
SetInspectionResult(s, uid, result) ==
    [s EXCEPT !.heap[uid].inspectionResult =
        InspectionResult(s.heap[uid].src, s.heap[uid].cursorPos,
                         s.heap[uid].expr.matchedText,
                         result.inspection.string, result.inspection.type)]

\* getDocumentationAndInvokeCallbacks without a scope (lines 927-932):
\* the documentation of the matched text.
MatchedTextDocumentation(s, uid) ==
    [s EXCEPT !.heap[uid].inspectionResult =
        AttachDoc(@, getDocumentation(s.heap[uid].expr.matchedText))]

\* The second inspect task's onSuccess (lines 968-982): the documentation
\* found along the chain of constructors.
ConstructorDocumentation(s, uid, result) ==
    IF ~result.inspection.hasConstructorList THEN s
    ELSE [s EXCEPT !.heap[s.heap[uid].owner].inspectionResult =
             AttachDoc(@, FirstDocumentation(result.inspection.constructorList, 1,
                                             s.heap[uid].expr.selector))]

\* complete, task.onSuccess: matchList, a variable of the closure, takes up
\* result.names.
UpdateMatchList(s, uid, names) ==
    IF s.heap[uid].wrap # "complete" THEN s
    ELSE [s EXCEPT !.heap[uid].matchList =
                      CompletionList(@, names, s.heap[uid].expr)]

\* if (callbacks && callbacks.onSuccess) { callbacks.onSuccess(result) }
\* (history: the result is kept with the public call).
UserOnSuccess(s1, uid, arg) ==
    IF "onSuccess" \notin s1.heap[uid].ucbs THEN s1
    ELSE CallUser([s1 EXCEPT !.heap[s1.heap[uid].owner].result = ResultOf(s1, uid)],
                  uid, "onSuccess", arg)

\* The onSuccess a task object carries: the user's for execute, and for
\* complete and inspect the function the session installs (lines 780-840,
\* 910-917, 967-987), which reaches the user's callbacks or, for an
\* expression with a scope, runs the second inspect task.
\* function getDocumentationAndInvokeCallbacks(), s1 being the state with
\* inspectionResult set.
GetDocumentationAndInvokeCallbacks(s1, uid, arg) ==
    IF s1.heap[uid].scope # <<>>
    THEN NewTask(s1, Closure(Task("inspectScope", "inspect", s1.heap[uid].scope,
                                  s1.heap[uid].ucbs, s1.heap[uid].re,
                                  s1.heap[uid].owner, s1.heap[uid].scope),
                             s1.heap[uid].src, s1.heap[uid].cursorPos,
                             s1.heap[uid].expr))
    ELSE OnSuccessAfterRun(UserOnSuccess(MatchedTextDocumentation(s1, uid), uid, arg),
                           uid)

TaskOnSuccess(s, uid, arg) ==
    CASE s.heap[uid].wrap = "inspect" ->
            GetDocumentationAndInvokeCallbacks(SetInspectionResult(s, uid, arg),
                                               uid, arg)
      [] s.heap[uid].wrap = "inspectScope" ->
            UserOnSuccess(ConstructorDocumentation(s, uid, arg), uid, arg)
      [] OTHER ->
            UserOnSuccess(UpdateMatchList(s, uid, arg.names), uid, arg)

\* task.<cb>(...)
CallTaskBody(s1, uid, cb, arg) ==
    IF cb = "onSuccess" THEN TaskOnSuccess(s1, uid, arg)
    ELSE CallUser(s1, uid, cb, arg)

\* if (task.<cb>) { task.<cb>(...) }
CallTask(s, uid, cb, arg) ==
    IF cb \notin s.heap[uid].cbs THEN s
    ELSE CallTaskBody(Emit(s, TaskEvent(s, uid, cb, arg)), uid, cb, arg)

\* History: the router has handled the end flag of a message for context
\* contextId, which ends the request of the current worker with that id.
MarkEnded(s, contextId) ==
    [i \in DOMAIN s.sent |->
        IF s.sent[i].id = contextId /\ s.sent[i].gen = s.server.gen
        THEN [s.sent[i] EXCEPT !.ended = TRUE] ELSE s.sent[i]]

\* The task of the message's context, and no task when the context is
\* missing.
ResolveTask_NoFallback(s, contextId) ==
    IF contextId \in DOMAIN s.contextTable THEN s.contextTable[contextId]
    ELSE Null

\* _onMessage: the task is the one of the message's context, or else the
\* last task (Null if there is none).
ResolveTask(s, contextId) ==
    IF contextId \in DOMAIN s.contextTable /\ s.contextTable[contextId] # Null
    THEN s.contextTable[contextId]
    ELSE s.lastTask

\* _onMessage: is it a stdout or stderr message?
Streaming(message) == Truthy(message.stdout) \/ Truthy(message.stderr)

\* Every message that is neither stdout nor stderr is a success.
MessageCallback_AlwaysSuccess(message) ==
    IF Truthy(message.stdout) THEN "onStdout"
    ELSE IF Truthy(message.stderr) THEN "onStderr"
    ELSE "onSuccess"

\* _onMessage: the callback the message is for.
MessageCallback(message) ==
    IF Truthy(message.stdout) THEN "onStdout"
    ELSE IF Truthy(message.stderr) THEN "onStderr"
    ELSE IF message.error THEN "onError"
    ELSE "onSuccess"

\* The in-flight slot is released and the queue is left alone.
OnMessageNext_ReleaseOnly(s2, task) ==
    IF s2.exc \/ task # s2.currentTask THEN s2
    ELSE [s2 EXCEPT !.currentTask = Null]

\* _onMessage: "If the task for this message is the last running task,
\* proceed to run the next task on the queue."
OnMessageNext(s2, task) ==
    IF s2.exc \/ task # s2.currentTask THEN s2
    ELSE IF Len(s2.tasks) > 0
         THEN RunNow([s2 EXCEPT !.currentTask = Null, !.tasks = Tail(@)],
                     Head(s2.tasks))
         ELSE [s2 EXCEPT !.currentTask = Null]

\* The context is removed once afterRun has returned.
OnMessageEnd_AfterRunFirst(s1, message, task) ==
    IF s1.exc \/ ~message.end THEN s1
    ELSE LET s2 == CallTask(s1, task, "afterRun", "") IN
         [s2 EXCEPT !.contextTable =
                       [i \in DOMAIN s2.contextTable \ {message.id} |->
                           s2.contextTable[i]],
                    !.sent = MarkEnded(s2, message.id)]

\* _onMessage: "Handle message.end"
OnMessageEnd(s1, message, task) ==
    IF s1.exc \/ ~message.end THEN s1
    ELSE CallTask(
            [s1 EXCEPT !.contextTable =
                          [i \in DOMAIN s1.contextTable \ {message.id} |->
                              s1.contextTable[i]],
                       !.sent = MarkEnded(s1, message.id)],
            task, "afterRun", "")

\* _onMessage, after the callback for the message has returned: a stdout or
\* stderr message is done.
OnMessageAfter(s1, message, task) ==
    IF Streaming(message) THEN s1
    ELSE OnMessageNext(OnMessageEnd(s1, message, task), task)

\* _onMessage, once the task is known.
OnMessageTask(s, message, task) ==
    IF task = Null THEN s
    ELSE OnMessageAfter(
            CallTask(s, task, MessageCallback(message),
                     IF message.error THEN message.ename ELSE Result(message)),
            message, task)

\* Session.prototype._onMessage
OnMessage(s, message) ==
    IF Truthy(message.log) THEN s
    ELSE OnMessageTask(s, message, ResolveTask(s, message.id))

\* A context id taken from the size of the context table (ids of finished
\* contexts come back).
NextContextId_FromTable(s) == Cardinality(DOMAIN s.contextTable) + 1

\* this._lastContextId++
NextContextId(s) == s.lastContextId + 1

\* _runNow: this._server.send([action, code, this._lastContextId])
RunNowSend(s) == Emit(s, SendEvent(s, s.lastTask, s.lastContextId))

\* _runNow: the catch block.  Building the error message may itself throw.
RunNowCatch(s3, em) ==
    IF em.threw THEN [s3 EXCEPT !.exc = TRUE]
    ELSE OnMessage(s3, em.msg)

\* _runNow: the try block, r being what this.transpile(code) did.
RunNowTry(s2, r) ==
    IF ~r.threw
    THEN RunNowSend([s2 EXCEPT !.heap[s2.lastTask].code = r.value])
    ELSE RunNowCatch([s2 EXCEPT !.heap[s2.lastTask].threw = TRUE],
                     HookErrorMessage(r.thrown))

\* _runNow, after beforeRun has returned.
RunNowTranspile(s2) ==
    IF s2.exc THEN s2
    ELSE IF s2.transpile.set /\ s2.heap[s2.lastTask].action = "run"
         THEN RunNowTry(Emit(s2, HookEvent(s2, s2.lastTask)),
                        ApplyHook(s2.transpile, s2.heap[s2.lastTask].code))
         ELSE RunNowSend(s2)

\* _runNow: the task becomes the current and the last task and gets the next
\* context id.
RunNowContext(s, task, id) ==
    [s EXCEPT !.currentTask = task,
              !.lastContextId = id,
              !.lastTask = task,
              !.contextTable = (id :> task) @@ @,
              \* history: the context and worker the task got
              !.heap[task].ctx = id,
              !.heap[task].gen = s.server.gen]

\* Session.prototype._runNow
RunNow(s, task) ==
    RunNowTranspile(
        CallTask(RunNowContext(s, task, NextContextId(s)), task, "beforeRun", ""))

\* The task is put at the head of the queue.
RunLater_Unshift(s, task) == [s EXCEPT !.tasks = <<task>> \o @]

\* Session.prototype._runLater
RunLater(s, task) == [s EXCEPT !.tasks = Append(@, task)]

\* Session.prototype._run
Run(s, task) ==
    IF s.killed THEN s
    ELSE IF s.currentTask = Null THEN RunNow(s, task)
    ELSE RunLater(s, task)

\* A task object is created and handed to this._run(task).
NewTask(s, t) ==
    Run([s EXCEPT !.heap = Append(@, [t EXCEPT !.owner =
                                 IF @ = 0 THEN Len(s.heap) + 1 ELSE @,
                                                !.born = Len(s.kills),
                                                !.bornKilled = s.killed])],
        Len(s.heap) + 1)

\* Session.prototype.execute
Execute(s, code, ucbs, re) ==
    NewTask(s, Task("execute", "run", code, ucbs, re, 0, <<>>))

\* complete and inspect when parseExpression returns null: the callbacks
\* are called at once.  An object stands for the call (its callbacks, code
\* and cursorPos); it is no task and is never handed to _run.
NullAfterRun(s3, uid) ==
    IF s3.exc \/ "afterRun" \notin s3.heap[uid].ucbs THEN s3
    ELSE CallUser(s3, uid, "afterRun", "")

NullOnSuccess(s2, uid, result) ==
    IF s2.exc \/ "onSuccess" \notin s2.heap[uid].ucbs THEN s2
    ELSE CallUser([s2 EXCEPT !.heap[uid].result = result], uid, "onSuccess", "")

NullBeforeRun(s1, uid) ==
    IF "beforeRun" \notin s1.heap[uid].ucbs THEN s1
    ELSE CallUser(s1, uid, "beforeRun", "")

NullCall(s, wrap, code, cursorPos, ucbs, re, result) ==
    NullAfterRun(
        NullOnSuccess(
            NullBeforeRun(
                [s EXCEPT !.heap = Append(@,
                    Closure(Task(wrap, "", <<>>, ucbs, re, Len(s.heap) + 1, <<>>),
                            code, cursorPos, NullExpression))],
                Len(s.heap) + 1),
            Len(s.heap) + 1, result),
        Len(s.heap) + 1)

\* "global"
Global == <<"g", "l", "o", "b", "a", "l">>

\* Session.prototype.complete, once the expression is parsed
CompleteExpression(s, code, cursorPos, expression, ucbs, re) ==
    IF expression.isNull
    THEN NullCall(s, "completeNull", code, cursorPos, ucbs, re,
                  EmptyCompletion(code, cursorPos))
    ELSE NewTask(s, Closure(Task("complete", "getAllPropertyNames",
                                 IF expression.scope = <<>> THEN Global
                                 ELSE expression.scope,
                                 ucbs, re, 0, expression.scope),
                            code, cursorPos, expression))

\* Session.prototype.complete
Complete(s, code, cursorPos, ucbs, re) ==
    CompleteExpression(s, code, cursorPos, parseExpression(code, cursorPos),
                       ucbs, re)

\* Session.prototype.inspect, once the expression is parsed
InspectExpression(s, code, cursorPos, expression, ucbs, re) ==
    IF expression.isNull
    THEN NullCall(s, "inspectNull", code, cursorPos, ucbs, re,
                  EmptyInspection(code, cursorPos))
    ELSE NewTask(s, Closure(Task("inspect", "inspect", expression.matchedText,
                                 ucbs, re, 0, expression.scope),
                            code, cursorPos, expression))

\* Session.prototype.inspect
Inspect(s, code, cursorPos, ucbs, re) ==
    InspectExpression(s, code, cursorPos, parseExpression(code, cursorPos),
                      ucbs, re)

\* Session.prototype.kill.  listener is "kill" for a plain kill and "restart"
\* when the callback is the one restart() builds.
Kill(s, listener, signal, hasCB) ==
    LET kid == Len(s.kills) + 1
        sig == IF signal = "" THEN "SIGTERM" ELSE signal
        srv == s.server
    IN [s EXCEPT !.killed = TRUE,
                 !.kills = Append(@, [kind |-> listener, hasCB |-> hasCB,
                                      gen |-> srv.gen, state |-> srv.state, n |-> 0]),
                 !.server = [srv EXCEPT
                     !.msgListener = FALSE,
                     !.state = IF srv.state = "running" THEN "killing" ELSE @,
                     !.signal = IF srv.state = "running" THEN sig ELSE @,
                     !.exitListeners = <<[kid |-> kid, kind |-> listener, hasCB |-> hasCB]>>]]

\* Session.prototype.restart
Restart(s, signal, hasCB) ==
    Kill(s, "restart", IF signal = "" THEN "SIGTERM" ELSE signal, hasCB)

\* The "exit" listener registered by kill: killCB, or restart's callback.
ExitCallback(s1, l, signal) ==
    IF l.hasCB THEN Emit(s1, KillCbEvent(s1, l.kid, signal)) ELSE s1

ExitListener(s, l, signal) ==
    ExitCallback(IF l.kind = "restart" THEN Session(s, s.config) ELSE s, l, signal)

\* ------------------------------------------------------------------ inputs
\* What complete and inspect are called with: `x` typed at top level and
\* `foo.b`, the cursor at the end.
CodeInputs ==
    {[code |-> <<"x">>, cursorPos |-> 1],
     [code |-> <<"f", "o", "o", ".", "b">>, cursorPos |-> 5]}

\* The characters of the code given to complete and inspect when every
\* short code is tried.
CodeAlphabet == {"a", "b", ".", " ", "[", "\""}

\* Codes tried besides: the examples of the documentation and of the
\* Expression typedef, single quotes, a digit, longer scopes, scopes with
\* bracketed strings.
ExampleCodes ==
    {<<"f", "o", "o", ".", "b">>,
     <<"f", "o", "o", "[", "\"", "b", "a">>,
     <<"f", "o", "o", "[", "'", "b">>,
     <<"a", ".", "b", ".", "a">>,
     <<"1", ".", "a">>,
     <<"a", "1", ".", "a">>,
     <<"d", "o">>,
     <<"a", " ", "a", ".", "b">>,
     <<"a", "[", "\"", "b", "\"", "]", ".", "a">>,
     <<"a", "[", "'", "b", "'", "]", "[", "'", "a">>}

\* Every code complete and inspect are tried with.
AllCodes ==
    (UNION {[1 .. n -> CodeAlphabet] : n \in 0 .. MaxCodeLen}) \cup ExampleCodes

\* Every code and cursor position complete and inspect are tried with.
AllCodeInputs ==
    UNION {{[code |-> c, cursorPos |-> pos] : pos \in 0 .. Len(c)} : c \in AllCodes}

\* The name lists the worker answers getAllPropertyNames with.
NameLists ==
    {<<>>,
     <<<<"a">>>>,
     <<<<"a", "b">>, <<"a">>, <<"b">>>>,
     <<<<"b", "a", "b">>, <<"b", "a">>, <<"a", "b", "a">>>>,
     <<<<"b", "a", "r">>, <<"b", "a", "z">>, <<"q", "u", "x">>>>}

\* What the callbacks of a public call do besides being recorded.
ReEntries ==
    {NoRe, [cb |-> "onSuccess", op |-> "execute"], [cb |-> "onSuccess", op |-> "kill"]}

\* Messages of the worker: error and success messages, with or without the
\* id and the end flag, stdout chunks (one of them the empty string) and one
\* log line.
WorkerMessages(ids) ==
    {Message(id, end, Absent, Absent, Absent, error, IF error THEN "Error" ELSE "") :
        id \in ids \cup {0}, end \in BOOLEAN, error \in BOOLEAN}
    \cup {Message(id, FALSE, Absent, out, Absent, FALSE, "") :
              id \in ids, out \in {"out", ""}}
    \cup {Message(0, FALSE, "log line", Absent, Absent, FALSE, "")}

\* ----------------------------------------------------------------- actions
\* The run may take one more public call or worker message.
MoreSteps(steps) == Len(heap) + nMsgs + Len(kills) < steps

\* The state a public call or an event handler leaves behind: an exception
\* that reaches the caller (or the event loop) is counted.
Commit(s) ==
    /\ transpile' = s.transpile
    /\ tasks' = s.tasks
    /\ currentTask' = s.currentTask
    /\ contextTable' = s.contextTable
    /\ lastContextId' = s.lastContextId
    /\ lastTask' = s.lastTask
    /\ config' = s.config
    /\ server' = s.server
    /\ killed' = s.killed
    /\ heap' = s.heap
    /\ sent' = s.sent
    /\ trace' = s.trace
    /\ kills' = s.kills
    /\ escaped' = IF s.exc THEN escaped + 1 ELSE escaped
    /\ givenConfig' = givenConfig

Blank ==
    [transpile |-> NoHook, tasks |-> <<>>, currentTask |-> Null,
     contextTable |-> <<>>, lastContextId |-> 0, lastTask |-> Null,
     config |-> [cwd |-> "", stdio |-> ""], server |-> Fork(0, [cwd |-> ""]),
     killed |-> FALSE, heap |-> <<>>, sent |-> <<>>, trace |-> <<>>,
     kills |-> <<>>, exc |-> FALSE]

\* new Session({cwd: "/w", transpile: hook})
Init ==
    \E hook \in Hooks :
        LET s == Session(Blank, [cwd |-> "/w", transpile |-> hook]) IN
        /\ transpile = s.transpile
        /\ tasks = s.tasks
        /\ currentTask = s.currentTask
        /\ contextTable = s.contextTable
        /\ lastContextId = s.lastContextId
        /\ lastTask = s.lastTask
        /\ config = s.config
        /\ server = s.server
        /\ killed = s.killed
        /\ heap = s.heap
        /\ sent = s.sent
        /\ trace = s.trace
        /\ kills = s.kills
        /\ escaped = 0
        /\ nMsgs = 0
        /\ givenConfig = [cwd |-> "/w", transpile |-> hook]

ExecuteCall(steps) ==
    /\ MoreSteps(steps)
    /\ Len(heap) < MaxTasks
    /\ \E code \in Codes, ucbs \in {AllCallbacks}, re \in ReEntries :
          /\ code = "bad" => (transpile.set /\ re = NoRe)
          /\ Commit(Execute(State, code, ucbs, re))
    /\ UNCHANGED nMsgs

CompleteCall(steps) ==
    /\ MoreSteps(steps)
    /\ Len(heap) < MaxTasks
    /\ \E i \in CodeInputs :
          /\ parseExpression(i.code, i.cursorPos).scope = <<>>
          /\ Commit(Complete(State, i.code, i.cursorPos, AllCallbacks, NoRe))
    /\ UNCHANGED nMsgs

InspectCall(steps) ==
    /\ MoreSteps(steps)
    /\ Len(heap) < MaxTasks
    /\ \E i \in CodeInputs :
          Commit(Inspect(State, i.code, i.cursorPos, AllCallbacks, NoRe))
    /\ UNCHANGED nMsgs

\* The worker's "message" event reaches the listener the constructor attached.
Deliver(steps) ==
    /\ MoreSteps(steps)
    /\ nMsgs < MaxMsgs
    /\ server.msgListener
    /\ \E m \in WorkerMessages(1 .. lastContextId) : Commit(OnMessage(State, m))
    /\ nMsgs' = nMsgs + 1

KillCall(steps) ==
    /\ MoreSteps(steps)
    /\ Len(kills) < MaxKills
    /\ \E hasCB \in BOOLEAN : Commit(Kill(State, "kill", "", hasCB))
    /\ UNCHANGED nMsgs

RestartCall(steps) ==
    /\ MoreSteps(steps)
    /\ Len(kills) < MaxKills
    /\ \E hasCB \in BOOLEAN : Commit(Restart(State, "", hasCB))
    /\ UNCHANGED nMsgs

\* The killed worker exits: its "exit" event runs the listeners.
WorkerExit ==
    /\ server.state = "killing"
    /\ Commit(IF server.exitListeners = <<>>
              THEN [State EXCEPT !.server.state = "exited"]
              ELSE ExitListener([State EXCEPT !.server.state = "exited"],
                                server.exitListeners[1], server.signal))
    /\ UNCHANGED nMsgs

Next ==
    \/ ExecuteCall(MaxSteps)
    \/ CompleteCall(MaxSteps)
    \/ InspectCall(MaxSteps)
    \/ Deliver(MaxSteps)
    \/ KillCall(MaxSteps)
    \/ RestartCall(MaxSteps)
    \/ WorkerExit

Spec == Init /\ [][Next]_vars

\* A worker that answers each request it receives, in the order received,
\* with exactly one success message carrying the request's id and the end
\* flag, and sends nothing else.
Reply ==
    /\ server.msgListener
    /\ nMsgs < Len(sent)
    /\ Commit(OnMessage(State, Message(sent[nMsgs + 1].id, TRUE, Absent, Absent,
                                       Absent, FALSE, "")))
    /\ nMsgs' = nMsgs + 1

NextAnswered ==
    \/ ExecuteCall(MaxStepsAnswered)
    \/ CompleteCall(MaxStepsAnswered)
    \/ InspectCall(MaxStepsAnswered)
    \/ Reply

SpecAnswered == Init /\ [][NextAnswered]_vars

\* The worker answers the oldest unanswered request with one end-flagged
\* error message carrying the request's id.
ReplyError ==
    /\ server.msgListener
    /\ nMsgs < Len(sent)
    /\ Commit(OnMessage(State, Message(sent[nMsgs + 1].id, TRUE, Absent, Absent,
                                       Absent, TRUE, "Error")))
    /\ nMsgs' = nMsgs + 1

\* A worker that answers each request it receives, in the order received,
\* with exactly one end-flagged message, a success or an error.
NextReplied ==
    \/ ExecuteCall(MaxStepsAnswered)
    \/ CompleteCall(MaxStepsAnswered)
    \/ InspectCall(MaxStepsAnswered)
    \/ Reply
    \/ ReplyError

SpecReplied == Init /\ [][NextReplied]_vars

\* The worker answers a request: the steps of Reply and ReplyError are the
\* steps that count a message, and they are possible whenever a request is
\* unanswered.
Answer ==
    /\ server.msgListener
    /\ nMsgs < Len(sent)
    /\ nMsgs' = nMsgs + 1

\* The same, with a worker that eventually answers: a request that stays
\* unanswered is eventually answered.
SpecRepliedFair == SpecReplied /\ WF_nMsgs(Answer)

\* new Session({cwd: "/w"}): no transform hook.
InitNoHook == Init /\ ~transpile.set

\* execute("good", callbacks) as the first call of the session.
ExecuteFirst ==
    /\ heap = <<>>
    /\ Commit(Execute(State, "good", AllCallbacks, NoRe))
    /\ UNCHANGED nMsgs

\* complete(code, cursorPos, callbacks) with any of the codes, as the first
\* complete or inspect call of the session.
CompleteAt ==
    /\ \A u \in 1 .. Len(heap) : heap[u].wrap = "execute"
    /\ \E i \in AllCodeInputs :
          Commit(Complete(State, i.code, i.cursorPos, AllCallbacks, NoRe))
    /\ UNCHANGED nMsgs

\* inspect(code, cursorPos, callbacks), likewise.
InspectAt ==
    /\ \A u \in 1 .. Len(heap) : heap[u].wrap = "execute"
    /\ \E i \in AllCodeInputs :
          Commit(Inspect(State, i.code, i.cursorPos, AllCallbacks, NoRe))
    /\ UNCHANGED nMsgs

\* The worker answers the oldest unanswered request with one end-flagged
\* success message; a getAllPropertyNames request with a list of names.
ReplyNames ==
    /\ server.msgListener
    /\ nMsgs < Len(sent)
    /\ \E names \in NameLists :
          /\ sent[nMsgs + 1].action # "getAllPropertyNames" => names = <<>>
          /\ Commit(OnMessage(State, NameListMessage(sent[nMsgs + 1].id, TRUE, names)))
    /\ nMsgs' = nMsgs + 1

NextComplete ==
    \/ ExecuteFirst
    \/ CompleteAt
    \/ InspectAt
    \/ ReplyNames

SpecComplete == InitNoHook /\ [][NextComplete]_vars

\* The chains of constructors the worker reports.
ConstructorLists ==
    {<<>>, <<Box>>, <<Box, Object>>, <<Object, Box>>, <<RangeError, Object>>,
     <<Array, Box>>}

\* The inspections the worker answers an inspect request with: of a value
\* that is null or undefined (no constructorList), or of one with a chain
\* of constructors.
Inspections ==
    {Inspection(string, <<"t">>, FALSE, <<>>) : string \in {<<"1">>, <<"2">>}}
    \cup {Inspection(string, <<"t">>, TRUE, list) :
              string \in {<<"1">>, <<"2">>}, list \in ConstructorLists}

\* The worker answers the oldest unanswered request with one end-flagged
\* success message; an inspect request with an inspection.
ReplyInspection ==
    /\ server.msgListener
    /\ nMsgs < Len(sent)
    /\ \E inspection \in Inspections :
          /\ sent[nMsgs + 1].action # "inspect" => inspection = CHOOSE i \in Inspections : TRUE
          /\ Commit(OnMessage(State, InspectionMessage(sent[nMsgs + 1].id, TRUE,
                                                       inspection)))
    /\ nMsgs' = nMsgs + 1

NextInspect ==
    \/ ExecuteFirst
    \/ InspectAt
    \/ ReplyInspection
    \/ ReplyError

SpecInspect == InitNoHook /\ [][NextInspect]_vars

\* ------------------------------------------------------------------ claims
InQueue(u) == \E i \in 1 .. Len(tasks) : tasks[i] = u
WasSent(u) == \E i \in 1 .. Len(sent) : sent[i].uid = u

\* C1: as long as kill() has not been called, the requests sent to the
\* worker are in submission order without repetition (uids are handed out in
\* submission order), the pending queue is in submission order and behind
\* everything sent, and a submitted task that has not been sent is either
\* still pending or a Run task whose transform hook threw; a task whose hook
\* threw is never sent.
C1_SentInSubmissionOrder ==
    kills = <<>> =>
        /\ \A i, j \in 1 .. Len(sent) : i < j => sent[i].uid < sent[j].uid
        /\ \A i, j \in 1 .. Len(tasks) : i < j => tasks[i] < tasks[j]
        /\ \A i \in 1 .. Len(sent), j \in 1 .. Len(tasks) : sent[i].uid < tasks[j]
        /\ \A u \in 1 .. Len(heap) :
              IF WasSent(u)
              THEN ~InQueue(u) /\ ~heap[u].threw
              ELSE InQueue(u) \/ (heap[u].threw /\ heap[u].action = "run")

\* Three tasks were submitted, the second one's hook threw, and the first
\* and the third were sent.
C1_Witness ==
    /\ kills = <<>>
    /\ Len(sent) = 2
    /\ \E u \in 1 .. Len(heap) :
          heap[u].threw /\ sent[1].uid < u /\ u < sent[2].uid

\* The requests of the current worker whose end-flagged message the router
\* has not handled yet.
Outstanding == {i \in 1 .. Len(sent) : sent[i].gen = server.gen /\ ~sent[i].ended}

\* C2: at most one request is outstanding at the worker.
C2_AtMostOneOutstanding == Cardinality(Outstanding) <= 1

\* The tasks dispatched to the current worker.
Dispatched == {u \in 1 .. Len(heap) : heap[u].ctx > 0 /\ heap[u].gen = server.gen}

\* C4: the tasks dispatched since the session was constructed got the ids
\* 1, 2, ..., lastContextId, one each and in dispatch order, and the ids of
\* the requests sent to one worker are strictly increasing.
C4_ContextIds ==
    /\ lastContextId = Cardinality(Dispatched)
    /\ {heap[u].ctx : u \in Dispatched} = 1 .. lastContextId
    /\ \A u, v \in Dispatched : u < v => heap[u].ctx < heap[v].ctx
    /\ \A i \in 1 .. Len(sent) : sent[i].id = heap[sent[i].uid].ctx
    /\ \A i, j \in 1 .. Len(sent) :
          i < j /\ sent[i].gen = sent[j].gen => sent[i].id < sent[j].id

\* Three tasks were dispatched to one worker: the first was sent with id 1
\* and ended, the hook threw on the second, which took id 2, and the third
\* was sent with id 3.
C4_Witness ==
    /\ kills = <<>>
    /\ lastContextId = 3
    /\ Len(sent) = 2
    /\ sent[1].id = 1 /\ sent[1].ended
    /\ sent[2].id = 3 /\ sent[2].gen = sent[1].gen
    /\ \E u \in Dispatched : heap[u].threw /\ heap[u].ctx = 2

\* C5: when no task is in flight and the pending queue is empty, the context
\* table is empty.
C5_TableEmptyWhenIdle ==
    (currentTask = Null /\ tasks = <<>>) => DOMAIN contextTable = {}

\* Nothing is in flight, nothing is pending and every request has been
\* answered.
Quiescent == currentTask = Null /\ tasks = <<>> /\ nMsgs = Len(sent)

\* The onSuccess invocations of the last step, as the tasks they were made on.
SuccessTrace ==
    SelectSeq(trace, LAMBDA e : e.kind = "task" /\ e.cb = "onSuccess")

\* The task objects built by the public calls themselves (the second task
\* of an inspect call is built by the first one's onSuccess).
Submitted == {u \in 1 .. Len(heap) : heap[u].owner = u}

\* The task objects made for the public call u.
TasksOf(u) == {w \in 1 .. Len(heap) : heap[w].owner = u}

C6_HookThrowReported ==
    \A u \in 1 .. Len(heap) :
        heap[u].threw =>
            /\ heap[u].n["onError"] = 1
            /\ heap[u].n["onSuccess"] = 0
            /\ ~WasSent(u)

\* C7: no exception leaves execute() or the message handler.
C7_NoExceptionEscapes == escaped = 0

\* C8: nothing is handed to the worker once kill() has been called.
C8_NothingSentAfterKill == \A i \in 1 .. Len(sent) : ~sent[i].killed

\* The worker of generation g has exited.
Exited(g) == server.gen > g \/ (server.gen = g /\ server.state = "exited")

\* C9: once the worker has exited, the callback of every kill() or restart()
\* call made before the exit has been invoked exactly once.
C9_EveryKillCallbackOnce ==
    \A k \in 1 .. Len(kills) :
        (kills[k].hasCB /\ kills[k].state # "exited" /\ Exited(kills[k].gen))
            => kills[k].n = 1

\* C10: after a restart the session has the configuration it was
\* constructed with: the working directory and the transform hook.
C10_RestartKeepsConfig ==
    server.gen > 1 =>
        /\ config.cwd = givenConfig.cwd
        /\ server.cwd = givenConfig.cwd
        /\ transpile = givenConfig.transpile

\* The task u was dispatched and has finished: the router has handled the
\* end-flagged message of its request, or its transform hook threw and the
\* failure was reported to its onError.
Finished(u) ==
    /\ heap[u].ctx > 0
    /\ \/ \E i \in 1 .. Len(sent) : sent[i].uid = u /\ sent[i].ended
       \/ heap[u].threw /\ heap[u].t["onError"] >= 1

\* C11: as long as kill() has not been called, the afterRun of every execute
\* or complete task that was dispatched and has finished has been invoked
\* exactly once.
C11_AfterRunOnce ==
    kills = <<>> =>
        \A u \in 1 .. Len(heap) :
            (heap[u].wrap \in {"execute", "complete"} /\ Finished(u))
                => heap[u].n["afterRun"] = 1

\* C12: as long as kill() has not been called, once every request has been
\* answered, with a success or an error, the beforeRun and the afterRun
\* given to every inspect call have each been invoked exactly once.
C12_InspectBeforeAfterOnce ==
    (kills = <<>> /\ Quiescent) =>
        \A u \in Submitted :
            heap[u].wrap = "inspect"
                => heap[u].n["beforeRun"] = 1 /\ heap[u].n["afterRun"] = 1

\* Streaming messages {id, stdout} and {id, stderr} for the contexts ids,
\* with a non-empty and with an empty payload.
StreamingMessages(ids) ==
    {Message(id, FALSE, Absent, out, Absent, FALSE, "") :
        id \in ids, out \in {"out", ""}}
    \cup {Message(id, FALSE, Absent, Absent, err, FALSE, "") :
              id \in ids, err \in {"err", ""}}

\* The events of a trace that are calls of callback cb of task u.
TaskCalls(tr, u, cbs) ==
    {k \in 1 .. Len(tr) : tr[k].kind = "task" /\ tr[k].uid = u /\ tr[k].cb \in cbs}

\* C13: in every state in which the worker can send, handling a streaming
\* message for a context of the table calls the owning task's onStdout
\* (for stdout) or onStderr (for stderr) once and nothing else, sends
\* nothing, and leaves the context table, the in-flight slot and the
\* pending queue as they are.
C13_StreamingOnly ==
    server.msgListener =>
        \A m \in StreamingMessages(DOMAIN contextTable) :
            LET r == OnMessage(State, m)
                cb == IF m.stdout # Absent THEN "onStdout" ELSE "onStderr"
            IN /\ r.contextTable = contextTable
               /\ r.currentTask = currentTask
               /\ r.tasks = tasks
               /\ r.sent = sent
               /\ \A k \in 1 .. Len(r.trace) :
                     r.trace[k].uid = contextTable[m.id] /\ r.trace[k].cb = cb
               /\ cb \in heap[contextTable[m.id]].cbs
                     => Cardinality(TaskCalls(r.trace, contextTable[m.id], {cb})) = 1

\* The task a message with context id `id` is for.
TargetOf(id) ==
    IF id \in DOMAIN contextTable THEN contextTable[id] ELSE lastTask

\* C14: in every state in which the worker can send, a message that is not
\* a log message (whatever its id: of a context of the table, of a finished
\* context, never used, or missing) is handled by the task of its context
\* if the table has one and by lastTask otherwise; without a lastTask
\* handling it calls nothing and changes nothing.
C14_TargetResolution ==
    server.msgListener =>
        \A m \in WorkerMessages(1 .. lastContextId + 1) :
            m.log = Absent =>
                LET r == OnMessage(State, m)
                    t == TargetOf(m.id)
                IN IF t = Null THEN r = State
                   ELSE /\ r.trace # <<>> =>
                             r.trace[1].kind = "task" /\ r.trace[1].uid = t
                        /\ heap[t].wrap = "execute" => r.trace # <<>>

\* Two messages were handled by the only task there is, the second after the
\* task's context had been ended and removed from the table.
C14_Witness ==
    /\ Len(heap) = 1 /\ nMsgs = 2 /\ lastTask = 1
    /\ sent[1].ended /\ DOMAIN contextTable = {}
    /\ heap[1].t["onSuccess"] + heap[1].t["onError"] = 2
    /\ trace # <<>> /\ trace[1].uid = 1

\* Error and success messages for the context ids and for no context.
ResultMessages(ids) ==
    {m \in WorkerMessages(ids) :
        m.log = Absent /\ m.stdout = Absent /\ m.stderr = Absent}

\* C15: in every state in which the worker can send, handling an error or
\* success message whose target task has both callbacks calls exactly one
\* of the target's onError and onSuccess, once: onError if the message has
\* an error and onSuccess otherwise.  No onSuccess of another task is called,
\* and an onError of another task only for a task that is dispatched while
\* the message is handled and whose transform hook throws.
C15_ExactlyOneCallback ==
    server.msgListener =>
        \A m \in ResultMessages(1 .. lastContextId + 1) :
            LET r == OnMessage(State, m)
                t == TargetOf(m.id)
            IN (t # Null /\ {"onSuccess", "onError"} \subseteq heap[t].cbs) =>
                  /\ Cardinality(TaskCalls(r.trace, t, {"onSuccess", "onError"})) = 1
                  /\ Cardinality(TaskCalls(r.trace, t,
                         {IF m.error THEN "onError" ELSE "onSuccess"})) = 1
                  /\ \A u \in (1 .. Len(r.heap)) \ {t} :
                        /\ TaskCalls(r.trace, u, {"onSuccess"}) = {}
                        /\ TaskCalls(r.trace, u, {"onError"}) # {} =>
                              /\ r.heap[u].threw
                              /\ r.heap[u].t["beforeRun"] = 1
                              /\ TaskCalls(r.trace, u, {"beforeRun"}) # {}

\* The last message handled was an error message: it called the onError of
\* its task and nothing else of it.
C15_Witness ==
    /\ nMsgs >= 1 /\ Len(trace) = 2
    /\ trace[1].kind = "task" /\ trace[1].cb = "onError"
    /\ ~heap[trace[1].uid].threw
    /\ heap[trace[1].uid].t["onError"] = 1 /\ heap[trace[1].uid].t["onSuccess"] = 0

\* C16: in every state in which the worker can send, handling an error or
\* success message without the end flag (whose target's callbacks do not
\* call back into the session) leaves the in-flight slot, the pending queue
\* and the context table as they are and sends nothing.
C16_AdvanceOnlyOnEnd ==
    server.msgListener =>
        \A m \in ResultMessages(1 .. lastContextId + 1) :
            LET r == OnMessage(State, m)
                t == TargetOf(m.id)
            IN (~m.end /\ t # Null /\ heap[t].re = NoRe) =>
                  /\ r.currentTask = currentTask
                  /\ r.tasks = tasks
                  /\ r.contextTable = contextTable
                  /\ r.sent = sent

\* C17: while a task is in flight and kill() has not been called, nothing
\* but an error or success message releases the in-flight slot or sends a
\* request: not a log message, not a streaming message (whatever its
\* payload), and not a call of execute, complete or inspect.
C17_StalledUntilAnswer ==
    (currentTask # Null /\ ~killed /\ server.msgListener) =>
        /\ \A m \in StreamingMessages(1 .. lastContextId)
                       \cup {Message(0, FALSE, "log line", Absent, Absent, FALSE, "")} :
              /\ OnMessage(State, m).currentTask = currentTask
              /\ OnMessage(State, m).sent = sent
        /\ \A code \in Codes :
              /\ Execute(State, code, AllCallbacks, NoRe).currentTask = currentTask
              /\ Execute(State, code, AllCallbacks, NoRe).sent = sent
        /\ \A i \in CodeInputs :
              /\ Complete(State, i.code, i.cursorPos, AllCallbacks, NoRe).currentTask
                    = currentTask
              /\ Complete(State, i.code, i.cursorPos, AllCallbacks, NoRe).sent = sent
              /\ Inspect(State, i.code, i.cursorPos, AllCallbacks, NoRe).currentTask
                    = currentTask
              /\ Inspect(State, i.code, i.cursorPos, AllCallbacks, NoRe).sent = sent

\* What the callbacks of a trace were, in order.
CallbacksOf(tr) == [k \in 1 .. Len(tr) |-> <<tr[k].kind, tr[k].cb>>]

\* The step is a call of complete() or inspect() with a code and cursor
\* position for which parseExpression returns null.
UnsupportedCall ==
    /\ Len(heap') = Len(heap) + 1
    /\ heap'[Len(heap')].wrap \in {"complete", "completeNull", "inspect", "inspectNull"}
    /\ parseExpression(heap'[Len(heap')].src, heap'[Len(heap')].cursorPos).isNull

\* The empty result of C18 for the call object t.
EmptyResultFor(t) ==
    IF t.wrap \in {"complete", "completeNull"}
    THEN [kind |-> "completion", list |-> <<>>, code |-> t.src,
          cursorPos |-> t.cursorPos, matchedText |-> <<>>,
          cursorStart |-> t.cursorPos, cursorEnd |-> t.cursorPos]
    ELSE [kind |-> "inspection", code |-> t.src, cursorPos |-> t.cursorPos,
          matchedText |-> <<>>, string |-> <<>>, type |-> <<>>]

\* C18: a call of complete() or inspect() on an input the parser does not
\* support, made in any state, busy or idle, calls beforeRun, onSuccess and
\* afterRun of the callbacks object, in this order and nothing else, before
\* it returns; onSuccess gets the empty result (completion: list [],
\* matchedText "", cursorStart = cursorEnd = cursorPos; inspection: string ""
\* and type ""); nothing is sent, and the pending queue, the in-flight slot,
\* the context table and lastContextId are unchanged.
C18_UnsupportedIsImmediate ==
    [][UnsupportedCall =>
          /\ UNCHANGED <<tasks, currentTask, contextTable, lastContextId,
                         lastTask, sent, escaped, nMsgs>>
          /\ CallbacksOf(trace') =
                << <<"cb", "beforeRun">>, <<"cb", "onSuccess">>, <<"cb", "afterRun">> >>
          /\ \A k \in 1 .. Len(trace') : trace'[k].uid = Len(heap')
          /\ heap'[Len(heap')].result = EmptyResultFor(heap'[Len(heap')])
          /\ \A u \in 1 .. Len(heap) : heap'[u] = heap[u]]_vars

\* complete(".a", 2) was called while an execute task was in flight: the
\* three callbacks have run and the task is still in flight.
C18_Witness ==
    /\ Len(heap) = 2 /\ currentTask = 1 /\ Len(sent) = 1 /\ tasks = <<>>
    /\ heap[2].wrap = "completeNull"
    /\ heap[2].src = <<".", "a">> /\ heap[2].cursorPos = 2
    /\ heap[2].n["beforeRun"] = 1 /\ heap[2].n["onSuccess"] = 1
    /\ heap[2].n["afterRun"] = 1
    /\ heap[2].result.kind = "completion" /\ heap[2].result.cursorStart = 2

\* e starts with prefix.
StartsWith(e, prefix) ==
    Len(prefix) <= Len(e) /\ \A k \in 1 .. Len(prefix) : e[k] = prefix[k]

\* The completion list C19 describes, for the names of the worker and the
\* parsed expression.
ExpectedList(names, expression) ==
    LET candidates == IF expression.scope = <<>> THEN names \o javascriptKeywords
                      ELSE names
        kept == SelectSeq(candidates, LAMBDA e : StartsWith(e, expression.selector))
    IN [k \in 1 .. Len(kept) |->
           expression.scope \o expression.leftOp \o kept[k] \o expression.rightOp]

\* The completion tasks whose onSuccess the last step called, each with the
\* names it was called with.
Completed ==
    {k \in 1 .. Len(trace) :
        /\ trace[k].kind = "task" /\ trace[k].cb = "onSuccess"
        /\ heap[trace[k].uid].wrap = "complete"}

\* C19: when the worker answers the getAllPropertyNames request of a
\* complete() call, the list handed to onSuccess is the worker's names,
\* followed by the reserved words if and only if the scope is empty, of
\* which those that start with the selector are kept, each rendered as
\* scope + leftOp + entry + rightOp.  So complete("foo.b", 5) with the names
\* bar, baz, qux gives foo.bar, foo.baz with matchedText foo.b, and
\* complete("", 0) gives all the names and all the reserved words.
C19_CompletionList ==
    \A k \in Completed :
        LET t == heap[trace[k].uid]
            names == trace[k].arg.names
        IN /\ t.result.kind = "completion"
           /\ t.result.list = ExpectedList(names, t.expr)
           /\ t.result.matchedText = t.expr.matchedText
           /\ (t.src = <<"f", "o", "o", ".", "b">> /\ t.cursorPos = 5
                  /\ names = <<<<"b", "a", "r">>, <<"b", "a", "z">>, <<"q", "u", "x">>>>)
                => /\ t.result.list = << <<"f", "o", "o", ".", "b", "a", "r">>,
                                         <<"f", "o", "o", ".", "b", "a", "z">> >>
                   /\ t.result.matchedText = <<"f", "o", "o", ".", "b">>
                   /\ t.expr.scope = <<"f", "o", "o">>
           /\ t.src = <<>> => t.result.list = names \o javascriptKeywords
           /\ (t.src = <<"a", " ", "a", ".", "b">> /\ t.cursorPos = 5)
                => t.expr.scope = <<"a">> /\ t.expr.selector = <<"b">>
           /\ (t.src = <<"f", "o", "o", "[", "\"", "b", "a">> /\ t.cursorPos = 7
                  /\ names = <<<<"b", "a", "r">>, <<"b", "a", "z">>, <<"q", "u", "x">>>>)
                => t.result.list =
                      << <<"f", "o", "o", "[", "\"", "b", "a", "r", "\"", "]">>,
                         <<"f", "o", "o", "[", "\"", "b", "a", "z", "\"", "]">> >>

\* complete("foo.b", 5) was answered with bar, baz, qux and onSuccess got
\* foo.bar, foo.baz.
C19_Witness ==
    \E k \in Completed :
        /\ heap[trace[k].uid].src = <<"f", "o", "o", ".", "b">>
        /\ heap[trace[k].uid].n["onSuccess"] = 1
        /\ heap[trace[k].uid].result.list =
              << <<"f", "o", "o", ".", "b", "a", "r">>,
                 <<"f", "o", "o", ".", "b", "a", "z">> >>

\* C20: in every completion result with a non-empty list, cursorStart is
\* where the matched text that ends at the cursor starts, and
\* cursorStart <= cursorPos <= cursorEnd <= length of the code.
C20_CursorRange ==
    \A u \in 1 .. Len(heap) :
        (heap[u].result.kind = "completion" /\ heap[u].result.list # <<>>) =>
            LET res == heap[u].result IN
            /\ res.cursorStart = res.cursorPos - Len(res.matchedText)
            /\ res.cursorStart <= res.cursorPos
            /\ res.cursorPos <= res.cursorEnd
            /\ res.cursorEnd <= Len(res.code)

\* The second task of the inspect call u: the query on the scope.
ScopeTasks(u) == {w \in TasksOf(u) : heap[w].wrap = "inspectScope"}

\* The documentation of the first constructor of the chain whose member
\* named selector has documentation, NoDoc if none has.
ChainDocumentation(constructorList, selector) ==
    LET hits == {i \in 1 .. Len(constructorList) :
                    getDocumentation(constructorList[i] \o Prototype \o selector) # NoDoc}
    IN IF hits = {} THEN NoDoc
       ELSE getDocumentation(
                constructorList[CHOOSE i \in hits : \A j \in hits : i <= j]
                    \o Prototype \o selector)

\* C21: for an inspect() call on an expression with a scope, the second
\* query is made only once the first has succeeded and is an inspect request
\* on the scope; the caller's onSuccess is invoked at most once, and exactly
\* when the second query has succeeded; the result it gets is the result of
\* the first query (with code, cursorPos and matchedText), and its doc is
\* the documentation of the first constructor in the chain of the second
\* query's result whose member named selector has documentation, absent if
\* none has or the chain is missing.  So inspect("a.b", 3) with the chain
\* [Box] and documentation for Box.prototype.b gets that documentation.
C21_ScopedInspection ==
    \A u \in Submitted :
        (heap[u].wrap = "inspect" /\ heap[u].expr.scope # <<>>) =>
            /\ heap[u].n["onSuccess"] <= 1
            /\ Cardinality(ScopeTasks(u)) <= 1
            /\ ScopeTasks(u) # {} <=> heap[u].t["onSuccess"] = 1
            /\ heap[u].n["onSuccess"] = 1
                  <=> \E w \in ScopeTasks(u) : heap[w].t["onSuccess"] = 1
            /\ \A w \in ScopeTasks(u), i \in 1 .. Len(sent) :
                  sent[i].uid = w =>
                      sent[i].action = "inspect" /\ sent[i].code = heap[u].expr.scope
            /\ heap[u].n["onSuccess"] = 1 =>
                  LET w == CHOOSE w \in ScopeTasks(u) : TRUE
                      first == heap[u].got.inspection
                      second == heap[w].got.inspection
                      res == heap[u].result
                      d == IF second.hasConstructorList
                           THEN ChainDocumentation(second.constructorList,
                                                   heap[u].expr.selector)
                           ELSE NoDoc
                  IN /\ res.kind = "inspection"
                     /\ res.string = first.string /\ res.type = first.type
                     /\ res.code = heap[u].src /\ res.cursorPos = heap[u].cursorPos
                     /\ res.matchedText = heap[u].expr.matchedText
                     /\ IF d = NoDoc THEN "doc" \notin DOMAIN res
                        ELSE "doc" \in DOMAIN res /\ res.doc = d
                     /\ (heap[u].src = <<"a", ".", "b">> /\ heap[u].cursorPos = 3
                            /\ second.hasConstructorList
                            /\ second.constructorList = <<Box>>)
                          => "doc" \in DOMAIN res /\ res.doc = "Box.prototype.b"

\* inspect("a.b", 3): the first query was answered with the string 1, the
\* second with the string 2 and the chain [Box, Object]; onSuccess got the
\* first result with the documentation of Box.prototype.b.
C21_Witness ==
    \E u \in Submitted :
        /\ heap[u].wrap = "inspect" /\ heap[u].src = <<"a", ".", "b">>
        /\ heap[u].n["onSuccess"] = 1
        /\ heap[u].got.inspection.string = <<"1">>
        /\ \E w \in ScopeTasks(u) :
              /\ heap[w].got.inspection.string = <<"2">>
              /\ heap[w].got.inspection.constructorList = <<Box, Object>>
        /\ heap[u].result.string = <<"1">>
        /\ "doc" \in DOMAIN heap[u].result
        /\ heap[u].result.doc = "Box.prototype.b"

\* The complete() and inspect() calls made so far whose code and cursor
\* position parseExpression found an expression for.
Parsed ==
    {u \in Submitted :
        heap[u].wrap \in {"complete", "inspect"} /\ ~heap[u].expr.isNull}

\* C22: whenever parseExpression returns an expression for a code and a
\* cursor position 0 <= cursorPos <= length(code), its matchedText is
\* scope + leftOp + selector and is the slice of the code of that length
\* that ends at cursorPos.
C22_MatchedTextSpan ==
    \A u \in Parsed :
        LET e == heap[u].expr IN
        /\ heap[u].expr = parseExpression(heap[u].src, heap[u].cursorPos)
        /\ e.matchedText = e.scope \o e.leftOp \o e.selector
        /\ Len(e.matchedText) <= heap[u].cursorPos
        /\ e.matchedText = SubSeq(heap[u].src,
                                  heap[u].cursorPos - Len(e.matchedText) + 1,
                                  heap[u].cursorPos)

\* `a a.b` was parsed with the cursor at the end: the matched text is a.b,
\* the three characters before the cursor.
C22_Witness ==
    \E u \in Parsed :
        /\ heap[u].src = <<"a", " ", "a", ".", "b">> /\ heap[u].cursorPos = 5
        /\ heap[u].expr.matchedText = <<"a", ".", "b">>
        /\ heap[u].expr.scope = <<"a">> /\ heap[u].expr.selector = <<"b">>

\* The trailing selector of text: its longest suffix that is an identifier
\* (empty if it has none).
TrailingSelector(text) ==
    LET from == {k \in 1 .. Len(text) : IsIdentifier(SubSeq(text, k, Len(text)))}
    IN IF from = {} THEN <<>>
       ELSE SubSeq(text, CHOOSE k \in from : \A j \in from : k <= j, Len(text))

\* The recognized operator text ends with (empty if it ends with none).
TrailingOperator(text) ==
    LET n == Len(text) IN
    IF n >= 1 /\ text[n] = "." THEN <<".">>
    ELSE IF n >= 2 /\ text[n - 1] = "[" /\ text[n] \in {"\"", "'"}
         THEN <<"[", text[n]>>
         ELSE <<>>

RECURSIVE ComplexIdentifierEnds(_)
\* A complex identifier ends at the end of text: text ends with an
\* identifier, or with a quoted-bracket segment (on one line) before which
\* a complex identifier ends.
ComplexIdentifierEnds(text) ==
    LET n == Len(text) IN
    \/ TrailingSelector(text) # <<>>
    \/ /\ n >= 5 /\ text[n] = "]" /\ text[n - 1] \in {"\"", "'"}
       /\ \E k \in 2 .. n - 3 :
             /\ text[k] = "[" /\ text[k + 1] = text[n - 1]
             /\ \A i \in k + 2 .. n - 2 : text[i] \notin {"\n", "\r"}
             /\ ComplexIdentifierEnds(SubSeq(text, 1, k - 1))

\* The text before the cursor, without its trailing selector, ends with a
\* recognized operator and no complex identifier ends before the operator.
Unsupported(code, cursorPos) ==
    LET text == SubSeq(code, 1, cursorPos)
        before == SubSeq(text, 1, Len(text) - Len(TrailingSelector(text)))
        op == TrailingOperator(before)
    IN /\ text # <<>>
       /\ text[Len(text)] \notin {" ", "\t", "\n", "\r"}
       /\ op # <<>>
       /\ ~ComplexIdentifierEnds(SubSeq(before, 1, Len(before) - Len(op)))

\* The complete() and inspect() calls made so far.
CompleteOrInspect ==
    {u \in Submitted :
        heap[u].wrap \in {"complete", "inspect", "completeNull", "inspectNull"}}

\* C23: complete() and inspect() get "unsupported" (null) from
\* parseExpression, and so answer at once with the empty result, if and only
\* if the text before the trailing selector ends with `.`, `["` or `['` and
\* no complex identifier ends immediately before that operator; in every
\* other case they get an Expression and make a task.
C23_UnsupportedIff ==
    \A u \in CompleteOrInspect :
        /\ heap[u].wrap \in {"completeNull", "inspectNull"}
              <=> Unsupported(heap[u].src, heap[u].cursorPos)
        /\ heap[u].expr.isNull <=> Unsupported(heap[u].src, heap[u].cursorPos)

\* complete("1.a", 3) was called: a number is no scope, so the call was
\* answered at once with the empty completion.
C23_Witness ==
    \E u \in CompleteOrInspect :
        /\ heap[u].src = <<"1", ".", "a">> /\ heap[u].cursorPos = 3
        /\ heap[u].wrap = "completeNull"
        /\ heap[u].expr.isNull
        /\ heap[u].n["onSuccess"] = 1
        /\ Unsupported(heap[u].src, heap[u].cursorPos)

\* The requests sent for task u.
SentFor(u) == {i \in 1 .. Len(sent) : sent[i].uid = u}

\* C24: with a transform hook given to the session, the hook has been
\* applied exactly once to every Run task that has been dispatched and never
\* to a task that is still pending (whose code is still the code it was
\* submitted with) nor to a ListNames or Inspect task; within a dispatch the
\* hook is applied after beforeRun and before the request is sent; a Run
\* task is sent with the hook's output as its code and every other task with
\* the code it was made with.
C24_HookOncePerRunTask ==
    /\ \A u \in 1 .. Len(heap) :
          /\ InQueue(u) => heap[u].hooked = 0 /\ heap[u].code = heap[u].given
          /\ heap[u].action # "run" =>
                /\ heap[u].hooked = 0
                /\ \A i \in SentFor(u) : sent[i].code = heap[u].given
          /\ (heap[u].action = "run" /\ givenConfig.transpile.set) =>
                /\ heap[u].hooked = IF heap[u].ctx > 0 THEN 1 ELSE 0
                /\ \A i \in SentFor(u) :
                      /\ ~ApplyHook(givenConfig.transpile, heap[u].given).threw
                      /\ sent[i].code =
                            ApplyHook(givenConfig.transpile, heap[u].given).value
          /\ ~givenConfig.transpile.set => heap[u].hooked = 0
    /\ \A k \in 1 .. Len(trace) :
          trace[k].kind = "hook" =>
              /\ k > 1
              /\ trace[k - 1].uid = trace[k].uid /\ trace[k - 1].cb = "beforeRun"
              /\ \A j \in 1 .. k - 1 :
                    ~(trace[j].kind = "send" /\ trace[j].uid = trace[k].uid)
              /\ k < Len(trace) =>
                    /\ trace[k + 1].uid = trace[k].uid
                    /\ trace[k + 1].kind = "send" \/ trace[k + 1].cb = "onError"

\* Task objects there can be in a run of MaxTasks public calls: each call
\* makes one and its onSuccess may make another.
TaskIds == 1 .. 2 * MaxTasks

\* Task u was dispatched (it got a context; its transform hook may have
\* thrown) and exactly one of its onSuccess and onError has been invoked.
Settled(u) ==
    /\ u <= Len(heap)
    /\ heap[u].ctx > 0
    /\ heap[u].t["onSuccess"] + heap[u].t["onError"] = 1

\* C25: against a worker that eventually answers every request with an
\* end-flagged error or success message carrying the request's id, and as
\* long as kill() is not called, every task handed to the session is
\* eventually dispatched (or fails in the transform hook) and eventually has
\* had exactly one of its onSuccess and onError invoked.
C25_EveryTaskSettles ==
    \A u \in TaskIds :
        (u <= Len(heap)) ~> (kills # <<>> \/ Settled(u))

\* The events of a trace in which task u is dispatched: its beforeRun is
\* called or its request is sent.
DispatchEvents(tr, u) ==
    {k \in 1 .. Len(tr) :
        /\ tr[k].uid = u
        /\ tr[k].kind = "send" \/ (tr[k].kind = "task" /\ tr[k].cb = "beforeRun")}

\* The tasks in the pending queue.
Pending == {tasks[i] : i \in 1 .. Len(tasks)}

\* C26, the order of the callbacks of a task.  (1) A task that has
\* beforeRun had it invoked exactly once before its request was sent and
\* before any of its onStdout, onStderr, onSuccess and onError.  (2) When
\* an end-flagged error or success message is handled, the onError or
\* onSuccess of its task comes first, while the context table still holds
\* the message's context; the context is removed before the task's afterRun
\* is called; and the beforeRun and the request of a task that was pending
\* come after that afterRun, beforeRun before the request.
C26_CallbackOrder ==
    /\ \A u \in 1 .. Len(heap) :
          "beforeRun" \in heap[u].cbs =>
              /\ heap[u].t["beforeRun"] <= 1
              /\ (WasSent(u) \/ \E cb \in {"onStdout", "onStderr", "onSuccess", "onError"} :
                                    heap[u].t[cb] > 0)
                    => heap[u].t["beforeRun"] = 1
              /\ \A j \in TaskCalls(trace, u, {"beforeRun"}) :
                    /\ \A k \in TaskCalls(trace, u, {"onStdout", "onStderr",
                                                      "onSuccess", "onError"}) : j < k
                    /\ \A k \in DispatchEvents(trace, u) : j <= k
    /\ server.msgListener =>
          \A m \in ResultMessages(1 .. lastContextId + 1) :
              LET r == OnMessage(State, m)
                  t == TargetOf(m.id)
                  first == TaskCalls(r.trace, t, {"onSuccess", "onError"})
                  after == TaskCalls(r.trace, t, {"afterRun"})
              IN (m.end /\ t # Null) =>
                    /\ {"onSuccess", "onError"} \subseteq heap[t].cbs => first = {1}
                    /\ ("afterRun" \in heap[t].cbs /\ ~r.exc)
                          => Cardinality(after) = 1
                    /\ \A i \in first, j \in after : i < j
                    /\ m.id \in DOMAIN contextTable =>
                          /\ \A i \in first : r.trace[i].open
                          /\ \A j \in after : ~r.trace[j].open
                          /\ m.id \notin DOMAIN r.contextTable
                    /\ \A u \in Pending :
                          \A k \in DispatchEvents(r.trace, u) :
                              /\ \A i \in first : i < k
                              /\ \A j \in after : j < k
                              /\ (r.trace[k].kind = "send"
                                     /\ "beforeRun" \in heap[u].cbs) =>
                                    \E j \in DispatchEvents(r.trace, u) :
                                        j < k /\ r.trace[j].cb = "beforeRun"

\* The end-flagged success message of task 1 was handled while task 2 was
\* pending: onSuccess of task 1 came first, its afterRun after its context
\* had been removed, then beforeRun of task 2 and last the request of task 2.
C26_Witness ==
    /\ Len(heap) >= 2 /\ Len(trace) >= 4
    /\ TaskCalls(trace, 1, {"onSuccess"}) = {1} /\ trace[1].open
    /\ \E j \in TaskCalls(trace, 1, {"afterRun"}) :
          /\ ~trace[j].open
          /\ \E k \in TaskCalls(trace, 2, {"beforeRun"}) : j < k
    /\ trace[Len(trace)].kind = "send" /\ trace[Len(trace)].uid = 2

\* C27: between public calls and message handlings, as long as the session
\* is not killed, a task is in flight whenever a task is pending.
C27_NoIdleWithPending ==
    (~killed /\ tasks # <<>>) => currentTask # Null

\* Task 1 succeeded and its onSuccess submitted task 4; the hook threw on
\* task 2, which was reported to its onError; task 3 is in flight and task 4
\* pending.
C27_Witness ==
    /\ ~killed /\ Len(heap) = 4
    /\ heap[1].t["onSuccess"] = 1
    /\ heap[2].threw /\ heap[2].t["onError"] = 1
    /\ currentTask = 3 /\ tasks = <<4>>

\* u comes before w in the queue q.
Before(q, u, w) ==
    \E i, j \in 1 .. Len(q) : i < j /\ q[i] = u /\ q[j] = w

\* C28: when the success of the first query of an inspect() call on a
\* scoped expression is handled (session not killed), the second query is
\* made and, unless it is dispatched in the same handler, is at the tail of
\* the pending queue; every task that was pending at that moment is either
\* dispatched before the second query or ahead of it in the queue.  So, as
\* long as kill() is not called, a second query is dispatched after every
\* task handed to the session before it.
C28_SecondQueryAtTail ==
    /\ (~killed /\ server.msgListener) =>
          \A m \in ResultMessages(1 .. lastContextId + 1) :
              LET r == OnMessage(State, m)
                  t == TargetOf(m.id)
                  w == Len(heap) + 1
              IN (~m.error /\ t # Null /\ heap[t].wrap = "inspect"
                     /\ heap[t].scope # <<>>) =>
                    /\ Len(r.heap) >= w
                    /\ r.heap[w].wrap = "inspectScope"
                    /\ r.heap[w].owner = heap[t].owner
                    /\ r.heap[w].ctx = 0 =>
                          r.tasks # <<>> /\ r.tasks[Len(r.tasks)] = w
                    /\ \A u \in Pending :
                          \/ /\ r.heap[u].ctx > 0
                             /\ r.heap[w].ctx > 0 => r.heap[u].ctx < r.heap[w].ctx
                          \/ Before(r.tasks, u, w)
    /\ kills = <<>> =>
          \A w \in 1 .. Len(heap) :
              (heap[w].wrap = "inspectScope" /\ heap[w].ctx > 0) =>
                  \A u \in 1 .. w - 1 : heap[u].ctx > 0 /\ heap[u].ctx < heap[w].ctx

\* inspect("foo.b", 5) was called, then execute(); the first query's
\* success was handled: the execute task is in flight and the second query
\* is pending behind it.
C28_Witness ==
    /\ kills = <<>> /\ Len(heap) = 3
    /\ heap[1].wrap = "inspect" /\ heap[1].t["onSuccess"] = 1
    /\ heap[2].wrap = "execute" /\ currentTask = 2 /\ WasSent(2)
    /\ heap[3].wrap = "inspectScope" /\ tasks = <<3>>

\* The step is a call of restart().
RestartStep ==
    /\ Len(kills') = Len(kills) + 1
    /\ kills'[Len(kills')].kind = "restart"

\* The restart() calls made on the current worker before it has exited.
Restarts ==
    {k \in 1 .. Len(kills) :
        /\ kills[k].kind = "restart"
        /\ kills[k].gen = server.gen /\ kills[k].state # "exited"}

\* The step is the exit of a worker on which restart() has been called.
ExitAfterRestart ==
    /\ server.state = "killing"
    /\ server'.gen # server.gen \/ server'.state = "exited"
    /\ Restarts # {}

\* The callback events of a trace for the restart() call k.
RestartCallbacks(tr, k) ==
    {i \in 1 .. Len(tr) : tr[i].kind = "killCB" /\ tr[i].owner = k}

\* C29: a call of restart() marks the session killed and resets nothing;
\* a task handed to the session while it is killed is dropped: it gets no
\* callback, no context and no request; a task made before a restart() call
\* gets no callback after that call; when the exit of a worker on which
\* restart() was called is observed, the session is reset (killed = false,
\* empty queue, empty in-flight slot, empty context table, lastContextId = 0)
\* and the callback of the last restart() call is invoked after the reset;
\* the first task dispatched to a worker gets context id 1.
C29_RestartResetsAtExit ==
    /\ [](\A u \in 1 .. Len(heap) :
             /\ heap[u].late = 0
             /\ heap[u].bornKilled =>
                   /\ \A cb \in AllCallbacks : heap[u].t[cb] = 0 /\ heap[u].n[cb] = 0
                   /\ heap[u].ctx = 0 /\ ~InQueue(u) /\ ~WasSent(u)
             /\ heap[u].ctx > 0 =>
                   \E v \in 1 .. u : heap[v].gen = heap[u].gen /\ heap[v].ctx = 1)
    /\ [][RestartStep =>
             /\ killed'
             /\ server'.gen = server.gen
             /\ UNCHANGED <<tasks, currentTask, contextTable, lastContextId,
                            lastTask, heap, sent>>]_vars
    /\ [][ExitAfterRestart =>
             /\ ~killed'
             /\ server'.gen = server.gen + 1 /\ server'.state = "running"
             /\ tasks' = <<>> /\ currentTask' = Null
             /\ DOMAIN contextTable' = {} /\ lastContextId' = 0
             /\ LET k == CHOOSE k \in Restarts : \A j \in Restarts : j <= k IN
                kills[k].hasCB =>
                    /\ Cardinality(RestartCallbacks(trace', k)) = 1
                    /\ \A i \in RestartCallbacks(trace', k) :
                          ~trace'[i].killed /\ trace'[i].gen = server'.gen]_vars

====
